---- MODULE Spec2Model ----
(***************************************************************************)
(* A model of the settlement core of bark: the arkd service (App) and the  *)
(* client's PSBT input extension.                                          *)
(*                                                                         *)
(*   src/arkd/src/lib.rs       App::start, onchain_address,                *)
(*                             sync_onchain_wallet, spendable_expired_vtxos*)
(*                             and sign_round_utxo_inputs                  *)
(*   src/bark/src/psbtext.rs   PsbtInputExt: set_claim_input,              *)
(*                             get_claim_input, try_sign_claim_input       *)
(*                                                                         *)
(* Cryptography is symbolic: a sighash is the record of what it commits    *)
(* to, a signature is the pair (key, message).  Byte strings are sequences *)
(* of small naturals.  Rust indices are 0-based; sequences here are        *)
(* 1-based, and a sighash records the 0-based index.                       *)
(***************************************************************************)
EXTENDS Integers, Sequences, FiniteSets, TLC

VARIABLES
    debug_assertions,   \* the build: debug_assert_eq! is compiled in or out
    \* the round-utxo cosigner
    psbt,               \* the PSBT handed to sign_round_utxo_inputs
    psbt0,              \* the PSBT as it was when the call started
    sign_res,           \* the outcome of the call
    \* the spendable-utxo enumerator
    db,                 \* the rounds of the database, in index order
    enum_call,          \* the last call: height and the database's answers
    enum_res,           \* what that call returned
    \* the client's PSBT input
    cin,                \* the psbt::Input the client works on
    cin0,               \* that input as it was when the last call started
    client_call,        \* the last call on it, with its arguments
    client_res,         \* what that call returned
    \* the task spawned by App::start
    rpc,                \* the future run_public_rpc_server(app)
    sched,              \* the future run_round_scheduler(app, round_input_rx)
    jh,                 \* the JoinHandle's view of the spawned task
    round_inputs,       \* RoundInputs sent on round_input_tx, not yet received
    \* the onchain wallet
    chain_tip,          \* the height of the full node's best block
    wallet,             \* the bdk wallet in memory
    store,              \* what the wallet's file store holds
    wallet_lock,        \* the caller holding App::wallet's mutex, 0 when free
    waiters,            \* the callers waiting in lock().await, first come first
    pc,                 \* where each caller is
    pass                \* the call each caller is in

vars == << debug_assertions, psbt, psbt0, sign_res, db, enum_call, enum_res,
           cin, cin0, client_call, client_res, rpc, sched, jh, round_inputs,
           chain_tip, wallet, store, wallet_lock, waiters, pc, pass >>
wallet_vars == << chain_tip, wallet, store, wallet_lock, waiters, pc, pass >>
task_vars == << rpc, sched, jh, round_inputs >>
client_vars == << cin, cin0, client_call, client_res >>
cosigner_vars == << psbt, psbt0, sign_res >>
enum_vars == << db, enum_call, enum_res >>

\* ------------------------------------------------------------------ bounds
MaxRounds == 2          \* rounds known to the database
MaxInputs == 3          \* inputs of the PSBT handed to the cosigner
MaxHeight == 2          \* block heights 0..MaxHeight
MaxKeys == 2            \* key pairs 1..MaxKeys
MaxDelta == 2           \* exit deltas 1..MaxDelta
TxInputs == 2           \* inputs of the client's exit transaction
MaxServed == 3          \* RPC requests the server handles
MaxRoundsRun == 3       \* rounds the scheduler runs
MaxCallers == 2         \* concurrent callers of App's methods
MaxBlocks == 2          \* blocks the node connects above StartHeight

Rounds == 1..MaxRounds

\* ------------------------------------------------------------ Option/Result
None == [tag |-> "None"]
Some(v) == [tag |-> "Some", val |-> v]
Ok(v) == [tag |-> "Ok", val |-> v]
Err(e) == [tag |-> "Err", err |-> e]

\* a map (BTreeMap) as a function; insert replaces the value of a present key
EmptyMap == [k \in {} |-> <<>>]
MapInsert(m, k, v) == [x \in (DOMAIN m) \cup {k} |-> IF x = k THEN v ELSE m[x]]

\* ------------------------------------------------------- arkd: RoundMeta
\* crate::psbtext of arkd: the proprietary key of the RoundMeta tag
PROP_KEY_ROUND_META == [prefix |-> "arkd", subtype |-> 1, key |-> <<>>]

RoundMetaKinds == {"Vtxo", "Connector"}
RoundMetaCode(meta) == IF meta = "Vtxo" THEN 0 ELSE 1

\* the deterministic binary encoding of (round_txid, meta)
RoundMetaEncode(round_txid, meta) == <<round_txid, RoundMetaCode(meta)>>

RoundMetaDecode(bytes) ==
    IF Len(bytes) = 2 /\ bytes[2] \in {0, 1}
    THEN Ok([round |-> bytes[1], meta |-> IF bytes[2] = 0 THEN "Vtxo" ELSE "Connector"])
    ELSE Err("decode")

set_round_meta(input, round_txid, meta) ==
    [input EXCEPT !.proprietary =
        MapInsert(@, PROP_KEY_ROUND_META, RoundMetaEncode(round_txid, meta))]

\* Result<Option<(Txid, RoundMeta)>>
get_round_meta(input) ==
    IF PROP_KEY_ROUND_META \notin DOMAIN input.proprietary THEN Ok(None)
    ELSE LET d == RoundMetaDecode(input.proprietary[PROP_KEY_ROUND_META])
         IN  IF d.tag = "Ok" THEN Ok(Some(d.val)) ELSE Err("decode")

\* --------------------------------------------------------- psbt::Input
DefaultInput ==
    [ witness_utxo         |-> None,
      non_witness_utxo     |-> None,
      sighash_type         |-> None,
      tap_internal_key     |-> None,
      tap_scripts          |-> {},
      tap_merkle_root      |-> None,
      proprietary          |-> EmptyMap,
      final_script_witness |-> None ]

\* ------------------------------------------------ rounds in the database
\* the anchoring transaction of round r: output 0 is the vtxo tree root,
\* output 1 the connector
RoundTxOut(r, vout) == [txid |-> r, vout |-> vout]
RoundTx(r) == [txid |-> r, output |-> <<RoundTxOut(r, 0), RoundTxOut(r, 1)>>]

\* round.signed_tree.spec.expiry_scriptspend(): control block, script, leaf
\* version and merkle root of the expiry leaf
expiry_scriptspend(r) ==
    [ cb |-> r, script |-> <<"expiry", r>>, lv |-> "TapScript",
      merkle |-> <<"merkle", r>> ]

cosign_agg_pk(r) == <<"agg_pk", r>>

MasterKey == "master_key"
\* KeyPairExt::for_keyspend: the taproot-tweaked key of the key spend
for_keyspend(k) == <<"tweaked", k>>
x_only_public_key(k) == <<"xonly", k>>

\* ------------------------------------------- App::spendable_expired_vtxos
\* psbt_in of the vtxo tree utxo of round r (lines 242-254)
VtxoPsbtIn(r) ==
    LET s == expiry_scriptspend(r)
        base == [DefaultInput EXCEPT
                    !.witness_utxo     = Some(RoundTx(r).output[1]),
                    !.sighash_type     = Some("Default"),
                    !.tap_internal_key = Some(cosign_agg_pk(r)),
                    !.tap_scripts      = {[control |-> s.cb, script |-> s.script, lv |-> s.lv]},
                    !.tap_merkle_root  = Some(s.merkle),
                    !.non_witness_utxo = Some(RoundTx(r))]
    IN  set_round_meta(base, r, "Vtxo")

\* psbt_in of the connector output of round r (lines 263-270)
ConnectorPsbtIn(r) ==
    LET base == [DefaultInput EXCEPT
                    !.witness_utxo     = Some(RoundTx(r).output[2]),
                    !.sighash_type     = Some("Default"),
                    !.tap_internal_key = Some(x_only_public_key(MasterKey)),
                    !.non_witness_utxo = Some(RoundTx(r))]
    IN  set_round_meta(base, r, "Connector")

\* the two entries pushed for one round, in push order
RoundEntries(r) ==
    << [point |-> [txid |-> r, vout |-> 0], psbt |-> VtxoPsbtIn(r),
        weight |-> "NODE_SPEND_WEIGHT"],
       [point |-> [txid |-> r, vout |-> 1], psbt |-> ConnectorPsbtIn(r),
        weight |-> "INPUT_WEIGHT"] >>

RECURSIVE EnumLoop(_, _, _)
\* the for loop of lines 238-276 over the rest of expired_rounds, ret being
\* what was pushed so far; get_round[r] is the answer of db.get_round(r):
\* "Some" (a record), "None" or "Err"
EnumLoop(expired, get_round, ret) ==
    IF expired = <<>> THEN Ok(ret)
    ELSE IF get_round[Head(expired)] = "Err" THEN Err("db")
    ELSE IF get_round[Head(expired)] = "None"
         THEN [tag |-> "Panic", err |-> "db has round"]
    ELSE EnumLoop(Tail(expired), get_round, ret \o RoundEntries(Head(expired)))

\* the mutant: the connector entry is pushed before the vtxo tree entry
SwappedEnumeration(db_expired, get_round) ==
    LET r == EnumLoop(db_expired.val, get_round, <<>>)
        Swap(i) == IF i % 2 = 1 THEN i + 1 ELSE i - 1
    IN  IF db_expired.tag = "Err" THEN Err("db")
        ELSE IF r.tag # "Ok" THEN r
        ELSE Ok([i \in 1..Len(r.val) |-> r.val[Swap(i)]])

\* db_expired: the answer of db.get_expired_rounds(height), Ok(list) or Err
spendable_expired_vtxos(db_expired, get_round) ==
    IF db_expired.tag = "Err" THEN Err("db")
    ELSE EnumLoop(db_expired.val, get_round, <<>>)

\* ------------------------------------------------------------- sighash
\* SighashCache::taproot_script_spend_signature_hash with Prevouts::All:
\* an error when the prevouts do not match the transaction's inputs or the
\* index is out of bounds
SighashArgsOk(tx, idx, prevouts) ==
    /\ Len(prevouts) = Len(tx.input)
    /\ idx \in 1..Len(tx.input)

taproot_script_spend_signature_hash(tx, idx, prevouts, leaf_hash) ==
    [ path |-> "script", tx |-> tx, index |-> idx - 1, prevouts |-> prevouts,
      leaf |-> leaf_hash, sighash_type |-> "Default" ]

taproot_key_spend_signature_hash(tx, idx, prevouts) ==
    [ path |-> "key", tx |-> tx, index |-> idx - 1, prevouts |-> prevouts,
      leaf |-> <<>>, sighash_type |-> "Default" ]

TapLeafHash(script, lv) == <<"leaf_hash", script, lv>>
sign_schnorr(msg, key) == [sig |-> msg, by |-> key]
ControlSerialize(control) == <<"control_block", control>>

\* Witness::serialized_len against ark::tree::signed::NODE_SPEND_WEIGHT: the
\* witness of an expiry leaf has the node spend weight, another script has not
HasNodeSpendWeight(wit) == Len(wit) = 3 /\ wit[2][1] = "expiry"

\* tap_scripts.iter().next(): the entry of the smallest control block
FirstTapScript(tap_scripts) ==
    CHOOSE e \in tap_scripts : \A f \in tap_scripts : e.control <= f.control

\* ------------------------------------------ App::sign_round_utxo_inputs
SignOutcome(res, err, p) == [res |-> res, err |-> err, psbt |-> p]

\* the witness of a Vtxo input (lines 292-305)
VtxoWitness(tx, idx, prevouts, input) ==
    LET e == FirstTapScript(input.tap_scripts)
        sighash == taproot_script_spend_signature_hash(
                       tx, idx, prevouts, TapLeafHash(e.script, e.lv))
    IN  << sign_schnorr(sighash, MasterKey), e.script, ControlSerialize(e.control) >>

\* the witness of a Connector input (lines 310-317)
ConnectorWitness(tx, idx, prevouts, input) ==
    << sign_schnorr(taproot_key_spend_signature_hash(tx, idx, prevouts),
                    for_keyspend(MasterKey)) >>

RECURSIVE SignLoop(_, _, _, _)
\* the for loop of lines 288-321 from input idx on; p holds the inputs as
\* mutated so far
SignLoop(p, prevouts, idx, debug) ==
    IF idx > Len(p.inputs) THEN SignOutcome("Ok", "", p)
    ELSE
    LET input == p.inputs[idx]
        m == get_round_meta(input)
        Set(wit) == [p EXCEPT !.inputs[idx].final_script_witness = Some(wit)]
    IN  IF m.tag = "Err" THEN SignOutcome("Err", "corrupt psbt", p)
        ELSE IF m.val = None THEN SignLoop(p, prevouts, idx + 1, debug)
        ELSE IF m.val.val.meta = "Vtxo" THEN
            IF input.tap_scripts = {}
            THEN SignOutcome("Err", "corrupt psbt: missing tap_scripts", p)
            ELSE IF ~SighashArgsOk(p.unsigned_tx, idx, prevouts)
            THEN SignOutcome("Panic", "all prevouts provided", p)
            ELSE LET wit == VtxoWitness(p.unsigned_tx, idx, prevouts, input)
                 IN  IF debug /\ ~HasNodeSpendWeight(wit)
                     THEN SignOutcome("Panic", "debug_assert_eq", p)
                     ELSE SignLoop(Set(wit), prevouts, idx + 1, debug)
        ELSE
            IF ~SighashArgsOk(p.unsigned_tx, idx, prevouts)
            THEN SignOutcome("Panic", "all prevouts provided", p)
            ELSE SignLoop(Set(ConnectorWitness(p.unsigned_tx, idx, prevouts, input)),
                          prevouts, idx + 1, debug)

\* the mutant: the cosigner resets the witness of the inputs it does not sign
SignAndClearUntagged(p, debug) ==
    LET out == IF \E i \in 1..Len(p.inputs) : p.inputs[i].witness_utxo = None
               THEN SignOutcome("Panic", "unwrap", p)
               ELSE SignLoop(p, [i \in 1..Len(p.inputs) |-> p.inputs[i].witness_utxo.val],
                             1, debug)
        Clear(input) == IF get_round_meta(input) = Ok(None)
                        THEN [input EXCEPT !.final_script_witness = None]
                        ELSE input
    IN  [out EXCEPT !.psbt.inputs = [i \in 1..Len(@) |-> Clear(@[i])]]

\* the mutant: the cosigner takes the RoundMeta tag off the inputs it has signed
SignAndConsumeTag(p, debug) ==
    LET out == IF \E i \in 1..Len(p.inputs) : p.inputs[i].witness_utxo = None
               THEN SignOutcome("Panic", "unwrap", p)
               ELSE SignLoop(p, [i \in 1..Len(p.inputs) |-> p.inputs[i].witness_utxo.val],
                             1, debug)
        Signed(i) == out.psbt.inputs[i].final_script_witness
                         # p.inputs[i].final_script_witness
        Take(m) == [k \in (DOMAIN m) \ {PROP_KEY_ROUND_META} |-> m[k]]
    IN  [out EXCEPT !.psbt.inputs =
            [i \in 1..Len(@) |-> IF Signed(i)
                                 THEN [@[i] EXCEPT !.proprietary = Take(@)]
                                 ELSE @[i]]]

sign_round_utxo_inputs(p, debug) ==
    IF \E i \in 1..Len(p.inputs) : p.inputs[i].witness_utxo = None
    THEN SignOutcome("Panic", "unwrap", p)
    ELSE SignLoop(p, [i \in 1..Len(p.inputs) |-> p.inputs[i].witness_utxo.val], 1, debug)

\* ------------------------------------------------ PSBTs given to the cosigner
\* an input a collaborator added (a funding input), unsigned or already signed
FundingTxOut == [txid |-> 0, vout |-> 0]
FundingIn == [DefaultInput EXCEPT !.witness_utxo = Some(FundingTxOut)]
FundingSignedIn ==
    [FundingIn EXCEPT !.final_script_witness =
        Some(<< sign_schnorr("wallet_sighash", "wallet_key") >>)]
\* a Vtxo-tagged input that lost its tap-script entry
VtxoNoTapIn == [VtxoPsbtIn(1) EXCEPT !.tap_scripts = {}]
\* an input whose RoundMeta value does not decode
CorruptTagIn ==
    [FundingIn EXCEPT !.proprietary = MapInsert(EmptyMap, PROP_KEY_ROUND_META, <<9>>)]
\* a Vtxo-tagged input whose first tap-script entry is not the expiry leaf
OddVtxoIn ==
    [VtxoPsbtIn(1) EXCEPT !.tap_scripts =
        @ \cup {[control |-> 0, script |-> <<"odd", 1>>, lv |-> "TapScript"]}]

InputShapes ==
    {VtxoPsbtIn(r) : r \in Rounds} \cup {ConnectorPsbtIn(r) : r \in Rounds}
    \cup {FundingIn, FundingSignedIn, VtxoNoTapIn, CorruptTagIn, OddVtxoIn, DefaultInput}

OutPointOf(input) ==
    IF input.witness_utxo = None THEN FundingTxOut ELSE input.witness_utxo.val

Idle == [res |-> "idle", err |-> ""]
EmptyPsbt == [unsigned_tx |-> [input |-> <<>>], inputs |-> <<>>]

\* a collaborator adds an input to the transaction and to the PSBT
AddInput(shape) ==
    /\ sign_res = Idle
    /\ Len(psbt.inputs) < MaxInputs
    /\ psbt' = [unsigned_tx |-> [input |-> Append(psbt.unsigned_tx.input, OutPointOf(shape))],
                inputs |-> Append(psbt.inputs, shape)]
    /\ UNCHANGED << debug_assertions, psbt0, sign_res, enum_vars, client_vars, task_vars, wallet_vars >>

\* a PSBT whose input list is longer than its transaction's
DropTxIn ==
    /\ sign_res = Idle
    /\ Len(psbt.inputs) >= 1
    /\ Len(psbt.unsigned_tx.input) = Len(psbt.inputs)
    /\ psbt' = [psbt EXCEPT !.unsigned_tx.input = SubSeq(@, 1, Len(@) - 1)]
    /\ UNCHANGED << debug_assertions, psbt0, sign_res, enum_vars, client_vars, task_vars, wallet_vars >>

SignRoundUtxoInputs ==
    /\ sign_res = Idle
    /\ LET out == sign_round_utxo_inputs(psbt, debug_assertions)
       IN  /\ psbt0' = psbt
           /\ psbt' = out.psbt
           /\ sign_res' = [res |-> out.res, err |-> out.err]
    /\ UNCHANGED << debug_assertions, enum_vars, client_vars, task_vars, wallet_vars >>

\* ------------------------------------------------------- the database
Heights == 0..MaxHeight

\* db.get_expired_rounds(height): the rounds whose expiry has passed, in
\* index order
RECURSIVE get_expired_rounds(_, _)
get_expired_rounds(d, height) ==
    IF d = <<>> THEN <<>>
    ELSE (IF Head(d).expiry <= height THEN <<Head(d).round>> ELSE <<>>)
         \o get_expired_rounds(Tail(d), height)

SeqRange(s) == {s[i] : i \in 1..Len(s)}

\* a round completes and is stored with its expiry height
StoreRound(r, e) ==
    /\ \A i \in 1..Len(db) : db[i].round # r
    /\ db' = Append(db, [round |-> r, expiry |-> e])
    /\ UNCHANGED << debug_assertions, cosigner_vars, enum_call, enum_res, client_vars, task_vars, wallet_vars >>

\* spendable_expired_vtxos(height), the database answering every lookup
Enumerate(height) ==
    LET expired == get_expired_rounds(db, height)
    IN  \E get_round \in [SeqRange(expired) -> {"Some", "None", "Err"}] :
            /\ enum_call' = [height |-> height, expired |-> Ok(expired),
                             get_round |-> get_round]
            /\ enum_res' = spendable_expired_vtxos(Ok(expired), get_round)
            /\ UNCHANGED << debug_assertions, cosigner_vars, db, client_vars, task_vars, wallet_vars >>

\* spendable_expired_vtxos(height), db.get_expired_rounds failing
EnumerateDbDown(height) ==
    /\ enum_call' = [height |-> height, expired |-> Err("db"), get_round |-> EmptyMap]
    /\ enum_res' = spendable_expired_vtxos(Err("db"), EmptyMap)
    /\ UNCHANGED << debug_assertions, cosigner_vars, db, client_vars, task_vars, wallet_vars >>

NoCall == [height |-> 0, expired |-> Err("no call"), get_round |-> EmptyMap]

\* ----------------------------------------------- bark: exit::ClaimInput
Keypairs == 1..MaxKeys
public_key(k) == <<"pub", k>>
ExitDeltas == 1..MaxDelta

\* the legal ClaimInput values: a vtxo spec with the user's public key and
\* the exit delta
ClaimInputs ==
    { [spec |-> [user_pubkey |-> public_key(k), exit_delta |-> d]] :
        k \in Keypairs, d \in ExitDeltas }

\* exit::ClaimInput::encode: the fields in order, one byte each
ClaimEncode(v) == << v.spec.user_pubkey[2], v.spec.exit_delta >>

\* exit::ClaimInput::decode: two fields, none of them zero
ClaimDecode(bytes) ==
    IF Len(bytes) = 2 /\ bytes[1] >= 1 /\ bytes[2] >= 1
    THEN Ok([spec |-> [user_pubkey |-> public_key(bytes[1]), exit_delta |-> bytes[2]]])
    ELSE Err("decode")

exit_clause(spec) == <<"exit", spec.user_pubkey, spec.exit_delta>>
\* spec.exit_taproot().control_block(script)
exit_control_block(spec, script) == <<"exit_control", spec.user_pubkey, script>>

\* ------------------------------------------------- bark: PsbtInputExt
PROP_KEY_PREFIX == "bark"
PropKey_ClaimInput == 1
PROP_KEY_CLAIM_INPUT ==
    [prefix |-> PROP_KEY_PREFIX, subtype |-> PropKey_ClaimInput, key |-> <<>>]

\* the mutant: the value is inserted only when the key is vacant
SetClaimInputIfVacant(input, v) ==
    IF PROP_KEY_CLAIM_INPUT \in DOMAIN input.proprietary THEN input
    ELSE [input EXCEPT !.proprietary = MapInsert(@, PROP_KEY_CLAIM_INPUT, ClaimEncode(v))]

set_claim_input(input, v) ==
    [input EXCEPT !.proprietary = MapInsert(@, PROP_KEY_CLAIM_INPUT, ClaimEncode(v))]

Panic(msg) == [tag |-> "Panic", err |-> msg]

\* Option<ClaimInput>, or the panic of expect("corrupt psbt")
get_claim_input(input) ==
    IF PROP_KEY_CLAIM_INPUT \notin DOMAIN input.proprietary THEN None
    ELSE LET d == ClaimDecode(input.proprietary[PROP_KEY_CLAIM_INPUT])
         IN  IF d.tag = "Ok" THEN Some(d.val) ELSE Panic("corrupt psbt")

\* sighash::Prevouts: All(list) or One(index, txout)
PrevoutsAll(n) == [kind |-> "All", n |-> n]
PrevoutsOne == [kind |-> "One", n |-> 1]

\* taproot_script_spend_signature_hash under SIGHASH_DEFAULT: every prevout
\* is needed and the index must be one of the transaction's inputs
ClientSighashArgsOk(tx, prevouts, idx) ==
    /\ prevouts.kind = "All"
    /\ prevouts.n = Len(tx.input)
    /\ idx \in 1..Len(tx.input)

ExitWitness(claim, tx, prevouts, idx, key) ==
    LET exit_script == exit_clause(claim.spec)
        sighash == taproot_script_spend_signature_hash(
                       tx, idx, prevouts, TapLeafHash(exit_script, "TapScript"))
    IN  << sign_schnorr(sighash, key), exit_script,
           ControlSerialize(exit_control_block(claim.spec, exit_script)) >>

ClientOutcome(res, input) == [res |-> res, input |-> input]

\* the mutant: the key is compared after the witness is stored
SignThenAssertKey(input, tx, prevouts, idx, key, debug) ==
    LET c == get_claim_input(input)
    IN  IF c = None THEN ClientOutcome(Ok("()"), input)
        ELSE IF c.tag = "Panic" THEN ClientOutcome(c, input)
        ELSE IF ~ClientSighashArgsOk(tx, prevouts, idx)
             THEN ClientOutcome(Panic("all prevouts provided"), input)
        ELSE LET signed == [input EXCEPT !.final_script_witness =
                               Some(ExitWitness(c.val, tx, prevouts, idx, key))]
             IN  IF public_key(key) # c.val.spec.user_pubkey
                 THEN ClientOutcome(Panic("assert_eq"), signed)
                 ELSE ClientOutcome(Ok("()"), signed)

\* the mutant: the witness is stored without its control block, and an
\* untagged input has its witness cleared
SignWithoutControlBlock(input, tx, prevouts, idx, key, debug) ==
    LET c == get_claim_input(input)
    IN  IF c = None
        THEN ClientOutcome(Ok("()"), [input EXCEPT !.final_script_witness = None])
        ELSE IF c.tag = "Panic" THEN ClientOutcome(c, input)
        ELSE IF ~ClientSighashArgsOk(tx, prevouts, idx)
             THEN ClientOutcome(Panic("all prevouts provided"), input)
        ELSE IF public_key(key) # c.val.spec.user_pubkey
             THEN ClientOutcome(Panic("assert_eq"), input)
        ELSE ClientOutcome(Ok("()"),
                [input EXCEPT !.final_script_witness =
                    Some(SubSeq(ExitWitness(c.val, tx, prevouts, idx, key), 1, 2))])

\* Witness::size, in terms of what the witness holds
WitnessSize(wit) == <<"size", Len(wit), wit[2]>>
\* claim.satisfaction_weight(): the size of [signature, exit script, control block]
satisfaction_weight(claim) == <<"size", 3, exit_clause(claim.spec)>>

try_sign_claim_input(input, tx, prevouts, idx, key, debug) ==
    LET c == get_claim_input(input)
    IN  IF c = None THEN ClientOutcome(Ok("()"), input)
        ELSE IF c.tag = "Panic" THEN ClientOutcome(c, input)
        ELSE IF ~ClientSighashArgsOk(tx, prevouts, idx)
             THEN ClientOutcome(Panic("all prevouts provided"), input)
        ELSE IF public_key(key) # c.val.spec.user_pubkey
             THEN ClientOutcome(Panic("assert_eq"), input)
        ELSE LET wit == ExitWitness(c.val, tx, prevouts, idx, key)
             IN  IF debug /\ WitnessSize(wit) # satisfaction_weight(c.val)
                 THEN ClientOutcome(Panic("debug_assert_eq"), input)
                 ELSE ClientOutcome(Ok("()"),
                         [input EXCEPT !.final_script_witness = Some(wit)])

\* --------------------------------------------------- the client's calls
ClientTx == [input |-> [i \in 1..TxInputs |-> [txid |-> 0, vout |-> i - 1]]]

NoClientCall == [op |-> "none", v |-> None, idx |-> 0, prevouts |-> PrevoutsOne, key |-> 0]
ClientCall(op) == [NoClientCall EXCEPT !.op = op]

\* a fresh input replaces the one worked on: freshly constructed, or one
\* that already carries a witness
NewInput(input) ==
    /\ cin' = input
    /\ cin0' = input
    /\ client_call' = ClientCall("new")
    /\ client_res' = None
    /\ UNCHANGED << debug_assertions, cosigner_vars, enum_vars, task_vars, wallet_vars >>

\* another producer's proprietary entry, or bytes that arrived with the PSBT
OtherKey == [prefix |-> "other", subtype |-> 1, key |-> <<>>]
ForeignBytes == { <<>>, <<0, 0>>, <<MaxKeys, 1>> }
ForeignPut(k, bytes) ==
    /\ cin' = [cin EXCEPT !.proprietary = MapInsert(@, k, bytes)]
    /\ cin0' = cin
    /\ client_call' = ClientCall("foreign")
    /\ client_res' = None
    /\ UNCHANGED << debug_assertions, cosigner_vars, enum_vars, task_vars, wallet_vars >>

SetClaimInput(v) ==
    /\ cin' = set_claim_input(cin, v)
    /\ cin0' = cin
    /\ client_call' = [ClientCall("set") EXCEPT !.v = Some(v)]
    /\ client_res' = Ok("()")
    /\ UNCHANGED << debug_assertions, cosigner_vars, enum_vars, task_vars, wallet_vars >>

\* v: the value the call before this one set, if that call was set_claim_input
GetClaimInput ==
    /\ cin0' = cin
    /\ client_call' = [ClientCall("get") EXCEPT
                          !.v = IF client_call.op = "set" THEN client_call.v ELSE None]
    /\ client_res' = get_claim_input(cin)
    /\ UNCHANGED << debug_assertions, cosigner_vars, enum_vars, cin, task_vars, wallet_vars >>

TrySignClaimInput(prevouts, idx, key) ==
    LET out == try_sign_claim_input(cin, ClientTx, prevouts, idx, key, debug_assertions)
    IN  /\ cin' = out.input
        /\ cin0' = cin
        /\ client_call' = [ClientCall("sign") EXCEPT
                              !.idx = idx, !.prevouts = prevouts, !.key = key]
        /\ client_res' = out.res
        /\ UNCHANGED << debug_assertions, cosigner_vars, enum_vars, task_vars, wallet_vars >>

\* ------------------------------------------------- App::start: the task
\* a future of the select!: running (pending when polled), finished with
\* its output, or dropped
Running(n) == [state |-> "running", out |-> None, work |-> n]
Finished(f, ret) == [f EXCEPT !.state = "finished", !.out = Some(ret)]
Dropped(f) == IF f.state = "running" THEN [f EXCEPT !.state = "dropped"] ELSE f

\* anyhow::Context::context on a Result
context(ret, msg) == IF ret.tag = "Err" THEN Err(<<msg, ret.err>>) ELSE ret

\* the mutant: the branches are awaited one after the other, the task
\* finishing when the round scheduler has
AwaitBothBranches(branch, ret, r, s) ==
    IF branch = "rpc"
    THEN [rpc |-> Finished(r, ret), sched |-> s, jh |-> None]
    ELSE [rpc |-> r, sched |-> Finished(s, ret),
          jh |-> Some(context(ret, "error from round scheduler"))]

\* tokio::select! when a branch's future is ready with ret: the branch's
\* handler gives the task's output and the other future is dropped
select(branch, ret, r, s) ==
    IF branch = "rpc"
    THEN [rpc |-> Finished(r, ret), sched |-> Dropped(s),
          jh |-> Some(context(ret, "error from gRPC server"))]
    ELSE [rpc |-> Dropped(r), sched |-> Finished(s, ret),
          jh |-> Some(context(ret, "error from round scheduler"))]

TaskRunning == jh = None

\* the RPC server handles a request, which may send a RoundInput
RpcServe(sends) ==
    /\ TaskRunning /\ rpc.state = "running"
    /\ rpc.work < MaxServed
    /\ rpc' = [rpc EXCEPT !.work = @ + 1]
    /\ round_inputs' = IF sends THEN round_inputs + 1 ELSE round_inputs
    /\ UNCHANGED << debug_assertions, cosigner_vars, enum_vars, client_vars, sched, jh,
                    wallet_vars >>

\* the round scheduler receives a RoundInput
SchedReceive ==
    /\ TaskRunning /\ sched.state = "running"
    /\ round_inputs > 0
    /\ round_inputs' = round_inputs - 1
    /\ UNCHANGED << debug_assertions, cosigner_vars, enum_vars, client_vars, rpc, sched, jh,
                    wallet_vars >>

\* the round scheduler runs a round
SchedRound ==
    /\ TaskRunning /\ sched.state = "running"
    /\ sched.work < MaxRoundsRun
    /\ sched' = [sched EXCEPT !.work = @ + 1]
    /\ UNCHANGED << debug_assertions, cosigner_vars, enum_vars, client_vars, rpc, jh,
                    round_inputs, wallet_vars >>

\* a branch's future returns ret when polled
BranchReturns(branch, ret) ==
    /\ TaskRunning
    /\ (IF branch = "rpc" THEN rpc ELSE sched).state = "running"
    /\ LET after == select(branch, ret, rpc, sched)
       IN  /\ rpc' = after.rpc
           /\ sched' = after.sched
           /\ jh' = after.jh
    /\ UNCHANGED << debug_assertions, cosigner_vars, enum_vars, client_vars, round_inputs,
                    wallet_vars >>

\* ------------------------------------------------- the onchain wallet
Callers == 1..MaxCallers
COMMIT_INTERVAL == 10000
\* the wallet's checkpoint when the service starts: the next block is one at
\* which a commit is due
StartHeight == COMMIT_INTERVAL - 1

\* the methods of App that take the wallet's lock, and those that do not
LockingOps == {"onchain_address", "sync_onchain_wallet"}
SigningOps == {"sign_round_utxo_inputs", "cosign_onboard", "spendable_expired_vtxos"}

\* pc of a caller: "idle", "lock" (in self.wallet.lock().await), "address"
\* (line 193), "sync_loop" (line 206), "sync_mempool" (line 216), "return"
\* (the result is there, the guard not yet dropped), or "signing" (inside
\* one of the signing methods)
InWallet == {"address", "sync_loop", "sync_mempool", "return"}

\* the call a caller is in: the method, the checkpoint and the store's
\* content when the pass started, the emitter's position, what the pass did
\* so far and the result
NoPass == [op |-> "none", prev_tip |-> 0, pos |-> 0, log |-> <<>>, store0 |-> None,
           res |-> "none"]

\* the mutant: a commit every COMMIT_INTERVAL blocks of the pass, not at the
\* heights that are a multiple of it
CommitEveryNthOfPass(height, prev_tip) == (height - prev_tip) % COMMIT_INTERVAL = 0

\* line 209
commit_due(height, prev_tip) == height % COMMIT_INTERVAL = 0

\* wallet.apply_block_connected_to: the checkpoint advances to the block
apply_block(w, height) == [w EXCEPT !.tip = height]
\* wallet.apply_unconfirmed_txs
apply_unconfirmed_txs(w) == [w EXCEPT !.unconfirmed = TRUE]
\* wallet.try_get_address(AddressIndex::New): a further index is revealed;
\* the wallet records that it has revealed one
reveal_address(w) == [w EXCEPT !.revealed = TRUE]

ApplyEv(h) == [ev |-> "apply", height |-> h, state |-> None]
CommitEv(w) == [ev |-> "commit", height |-> 0, state |-> Some(w)]
MempoolEv == [ev |-> "mempool", height |-> 0, state |-> None]

\* the mutant: the guard is kept when the method returns an error
GuardLeakedOnError(holder, p, res) == IF holder = p /\ res = "Ok" THEN 0 ELSE holder

\* the MutexGuard of caller p goes out of scope: at the end of the method,
\* at a return by `?` and when a panic unwinds
drop_guard(holder, p, res) == IF holder = p THEN 0 ELSE holder

\* a caller starts a method of App
CallOp(p, op) ==
    /\ pc[p] = "idle"
    /\ IF op \in LockingOps
       THEN /\ pc' = [pc EXCEPT ![p] = "lock"]
            /\ waiters' = Append(waiters, p)
            /\ pass' = [pass EXCEPT ![p] = [NoPass EXCEPT !.op = op]]
       ELSE /\ pc' = [pc EXCEPT ![p] = "signing"]
            /\ UNCHANGED << waiters, pass >>
    /\ UNCHANGED << debug_assertions, cosigner_vars, enum_vars, client_vars, task_vars,
                    chain_tip, wallet, store, wallet_lock >>

\* a signing method returns; it worked on the master key, the database or a
\* PSBT only
SigningReturns(p) ==
    /\ pc[p] = "signing"
    /\ pc' = [pc EXCEPT ![p] = "idle"]
    /\ UNCHANGED << debug_assertions, cosigner_vars, enum_vars, client_vars, task_vars,
                    chain_tip, wallet, store, wallet_lock, waiters, pass >>

\* self.wallet.lock().await completes for the first waiter (lines 192, 200);
\* a sync pass then reads wallet.latest_checkpoint() and creates its Emitter
\* (lines 201-205)
AcquireLock(p) ==
    /\ pc[p] = "lock"
    /\ wallet_lock = 0
    /\ waiters # <<>> /\ Head(waiters) = p
    /\ wallet_lock' = p
    /\ waiters' = Tail(waiters)
    /\ IF pass[p].op = "onchain_address"
       THEN /\ pc' = [pc EXCEPT ![p] = "address"]
            /\ UNCHANGED pass
       ELSE /\ pc' = [pc EXCEPT ![p] = "sync_loop"]
            /\ pass' = [pass EXCEPT ![p].prev_tip = wallet.tip, ![p].pos = wallet.tip,
                                    ![p].store0 = Some(store)]
    /\ UNCHANGED << debug_assertions, cosigner_vars, enum_vars, client_vars, task_vars,
                    chain_tip, wallet, store >>

\* the method of caller p is about to return res, the wallet being w, the
\* store st and log what it did
Result(p, res, w, st, log) ==
    /\ pc' = [pc EXCEPT ![p] = "return"]
    /\ wallet' = w
    /\ store' = st
    /\ pass' = [pass EXCEPT ![p].res = res, ![p].log = log]

\* the method returns (lines 196, 221, or a `?` or a panic before them) and
\* its guard is dropped
Return(p) ==
    /\ pc[p] = "return"
    /\ pc' = [pc EXCEPT ![p] = "idle"]
    /\ wallet_lock' = drop_guard(wallet_lock, p, pass[p].res)
    /\ pass' = [pass EXCEPT ![p] = NoPass]
    /\ UNCHANGED << debug_assertions, cosigner_vars, enum_vars, client_vars, task_vars,
                    chain_tip, wallet, store, waiters >>

\* onchain_address (lines 193-196): Ok, an error of try_get_address, or, in
\* a debug build, the panic of debug_assert_eq!
OnchainAddress(p, res) ==
    /\ pc[p] = "address"
    /\ res = "Panic" => debug_assertions
    /\ Result(p, res, IF res = "Err" THEN wallet ELSE reveal_address(wallet), store, <<>>)
    /\ UNCHANGED << debug_assertions, cosigner_vars, enum_vars, client_vars, task_vars,
                    chain_tip, wallet_lock, waiters >>

\* the node connects a block
MineBlock ==
    /\ chain_tip < StartHeight + MaxBlocks
    /\ chain_tip' = chain_tip + 1
    /\ UNCHANGED << debug_assertions, cosigner_vars, enum_vars, client_vars, task_vars,
                    wallet, store, wallet_lock, waiters, pc, pass >>

\* one turn of the while loop (lines 206-213): the emitter gives the next
\* block, the wallet applies it and commits when a commit is due
SyncNextBlock(p) ==
    /\ pc[p] = "sync_loop"
    /\ pass[p].pos < chain_tip
    /\ LET h == pass[p].pos + 1
           w == apply_block(wallet, h)
           due == commit_due(h, pass[p].prev_tip)
       IN  /\ wallet' = w
           /\ store' = IF due THEN w ELSE store
           /\ pass' = [pass EXCEPT ![p].pos = h,
                          ![p].log = @ \o <<ApplyEv(h)>> \o (IF due THEN <<CommitEv(w)>> ELSE <<>>)]
    /\ UNCHANGED << debug_assertions, cosigner_vars, enum_vars, client_vars, task_vars,
                    chain_tip, wallet_lock, waiters, pc >>

\* the emitter has no further block (line 206): on to the mempool
SyncReachTip(p) ==
    /\ pc[p] = "sync_loop"
    /\ pass[p].pos = chain_tip
    /\ pc' = [pc EXCEPT ![p] = "sync_mempool"]
    /\ UNCHANGED << debug_assertions, cosigner_vars, enum_vars, client_vars, task_vars,
                    chain_tip, wallet, store, wallet_lock, waiters, pass >>

\* a turn of the loop fails: emitter.next_block() (line 206),
\* apply_block_connected_to (line 207) or wallet.commit() (line 211)
SyncLoopFails(p, at) ==
    /\ pc[p] = "sync_loop"
    /\ at \in {"apply", "commit"} => pass[p].pos < chain_tip
    /\ at = "commit" => commit_due(pass[p].pos + 1, pass[p].prev_tip)
    /\ IF at = "commit"
       THEN Result(p, "Err", apply_block(wallet, pass[p].pos + 1), store,
                   pass[p].log \o <<ApplyEv(pass[p].pos + 1)>>)
       ELSE Result(p, "Err", wallet, store, pass[p].log)
    /\ UNCHANGED << debug_assertions, cosigner_vars, enum_vars, client_vars, task_vars,
                    chain_tip, wallet_lock, waiters >>

\* lines 216-221: the mempool is applied, the wallet commits, the balance
\* is returned
SyncMempool(p) ==
    /\ pc[p] = "sync_mempool"
    /\ LET w == apply_unconfirmed_txs(wallet)
       IN  Result(p, "Ok", w, w, pass[p].log \o <<MempoolEv, CommitEv(w)>>)
    /\ UNCHANGED << debug_assertions, cosigner_vars, enum_vars, client_vars, task_vars,
                    chain_tip, wallet_lock, waiters >>

\* emitter.mempool() (line 216) or the last wallet.commit() (line 218) fails
SyncMempoolFails(p, at) ==
    /\ pc[p] = "sync_mempool"
    /\ IF at = "commit"
       THEN Result(p, "Err", apply_unconfirmed_txs(wallet), store,
                   pass[p].log \o <<MempoolEv>>)
       ELSE Result(p, "Err", wallet, store, pass[p].log)
    /\ UNCHANGED << debug_assertions, cosigner_vars, enum_vars, client_vars, task_vars,
                    chain_tip, wallet_lock, waiters >>

NewWallet == [tip |-> StartHeight, unconfirmed |-> FALSE, revealed |-> FALSE]

\* ------------------------------------------------------ specifications
Init ==
    /\ debug_assertions \in BOOLEAN
    /\ psbt = EmptyPsbt
    /\ psbt0 = EmptyPsbt
    /\ sign_res = Idle
    /\ db = <<>>
    /\ enum_call = NoCall
    /\ enum_res = Err("no call")
    /\ cin = DefaultInput
    /\ cin0 = DefaultInput
    /\ client_call = NoClientCall
    /\ client_res = None
    /\ rpc = Running(0)
    /\ sched = Running(0)
    /\ jh = None
    /\ round_inputs = 0
    /\ chain_tip = StartHeight
    /\ wallet = NewWallet
    /\ store = NewWallet
    /\ wallet_lock = 0
    /\ waiters = <<>>
    /\ pc = [p \in Callers |-> "idle"]
    /\ pass = [p \in Callers |-> NoPass]

\* the cosigner on every PSBT of up to MaxInputs inputs
Next ==
    \/ \E shape \in InputShapes : AddInput(shape)
    \/ DropTxIn
    \/ SignRoundUtxoInputs

Spec == Init /\ [][Next]_vars

\* the enumerator on every database of up to MaxRounds rounds
NextEnum ==
    \/ \E r \in Rounds, e \in Heights : StoreRound(r, e)
    \/ \E h \in Heights : Enumerate(h)
    \/ \E h \in Heights : EnumerateDbDown(h)

SpecEnum == Init /\ [][NextEnum]_vars

\* the client's codec and exit-claim signer on one PSBT input
NextClient ==
    \/ \E input \in {DefaultInput, FundingSignedIn} : NewInput(input)
    \/ \E k \in {PROP_KEY_CLAIM_INPUT, OtherKey}, b \in ForeignBytes : ForeignPut(k, b)
    \/ \E v \in ClaimInputs : SetClaimInput(v)
    \/ GetClaimInput
    \/ \E prevouts \in {PrevoutsAll(TxInputs), PrevoutsAll(TxInputs - 1), PrevoutsOne},
          idx \in 1..(TxInputs + 1), key \in Keypairs :
            TrySignClaimInput(prevouts, idx, key)

SpecClient == Init /\ [][NextClient]_vars

\* the task spawned by App::start
NextTask ==
    \/ \E sends \in BOOLEAN : RpcServe(sends)
    \/ SchedReceive
    \/ SchedRound
    \/ \E branch \in {"rpc", "sched"}, ret \in {Ok("()"), Err("failed")} :
            BranchReturns(branch, ret)

SpecTask == Init /\ [][NextTask]_vars

\* concurrent callers of the wallet and the signing methods
WalletStep(p) ==
    \/ AcquireLock(p)
    \/ \E res \in {"Ok", "Err", "Panic"} : OnchainAddress(p, res)
    \/ SyncNextBlock(p)
    \/ SyncReachTip(p)
    \/ SyncMempool(p)
    \/ Return(p)

NextWallet ==
    \/ \E p \in Callers, op \in LockingOps \cup SigningOps : CallOp(p, op)
    \/ \E p \in Callers : SigningReturns(p)
    \/ \E p \in Callers : WalletStep(p)
    \/ \E p \in Callers, at \in {"next_block", "apply", "commit"} : SyncLoopFails(p, at)
    \/ \E p \in Callers, at \in {"mempool", "commit"} : SyncMempoolFails(p, at)
    \/ MineBlock

\* a caller that can take the lock or go on inside the wallet does so: the
\* mutex hands the lock to the first waiter and no step inside blocks forever
\* The build is the debug build: its outcomes include the release build's.
InitWallet == Init /\ debug_assertions

SpecWallet ==
    InitWallet /\ [][NextWallet]_vars /\ \A p \in Callers : WF_vars(WalletStep(p))

\* --------------------------------------------------------------- claims
\* the RoundMeta kind an input is tagged with: "Vtxo", "Connector", "none"
\* (no tag) or "corrupt" (a value that does not decode)
TagKind(input) ==
    LET m == get_round_meta(input)
    IN  IF m.tag = "Err" THEN "corrupt"
        ELSE IF m.val = None THEN "none" ELSE m.val.val.meta

Called == sign_res # Idle
Inputs0 == 1..Len(psbt0.inputs)

\* every input has a witness-UTXO and every Vtxo-tagged input a tap-script entry
C1_Precondition ==
    \A i \in Inputs0 :
        /\ psbt0.inputs[i].witness_utxo # None
        /\ TagKind(psbt0.inputs[i]) = "Vtxo" => psbt0.inputs[i].tap_scripts # {}

IsVtxoWitness(input0, i, w) ==
    /\ w # None
    /\ Len(w.val) = 3
    /\ w.val[1].by = MasterKey
    /\ w.val[1].sig.path = "script" /\ w.val[1].sig.index = i - 1
    /\ \E e \in input0.tap_scripts :
          /\ w.val[2] = e.script
          /\ w.val[3] = ControlSerialize(e.control)
          /\ w.val[1].sig.leaf = TapLeafHash(e.script, e.lv)

IsConnectorWitness(i, w) ==
    /\ w # None
    /\ Len(w.val) = 1
    /\ w.val[1].by = for_keyspend(MasterKey)
    /\ w.val[1].sig.path = "key" /\ w.val[1].sig.index = i - 1

\* C1: cosigner selectivity.  On a PSBT whose inputs all have a witness-UTXO
\* and whose Vtxo-tagged inputs all have a tap-script entry, once
\* sign_round_utxo_inputs has returned Ok every Vtxo-tagged input has a final
\* witness of exactly 3 elements [signature, script, control block], every
\* Connector-tagged input one of exactly 1 element [signature], and every
\* input without a RoundMeta tag is exactly as it was before the call.
C1_CosignerSelectivity ==
    (sign_res.res = "Ok" /\ C1_Precondition) =>
        /\ Len(psbt.inputs) = Len(psbt0.inputs)
        /\ \A i \in Inputs0 :
            LET kind == TagKind(psbt0.inputs[i])
                w == psbt.inputs[i].final_script_witness
            IN  /\ kind = "Vtxo" => IsVtxoWitness(psbt0.inputs[i], i, w)
                /\ kind = "Connector" => IsConnectorWitness(i, w)
                /\ kind = "none" => psbt.inputs[i] = psbt0.inputs[i]
                /\ kind # "corrupt"

\* a call that returned Ok on a PSBT holding a Vtxo-tagged, a Connector-tagged
\* and an untagged, already signed input
C1_Witness ==
    /\ sign_res.res = "Ok"
    /\ C1_Precondition
    /\ \E i, j, k \in Inputs0 :
        /\ TagKind(psbt0.inputs[i]) = "Vtxo"
        /\ TagKind(psbt0.inputs[j]) = "Connector"
        /\ TagKind(psbt0.inputs[k]) = "none"
        /\ psbt0.inputs[k].final_script_witness # None

\* what the cosigner expects of a PSBT apart from the tap-script entries: a
\* witness-UTXO on every input, as many inputs as the transaction has, tags
\* that decode, and expiry leaves as tap scripts
C2_WellFormedOtherwise ==
    /\ Len(psbt0.unsigned_tx.input) = Len(psbt0.inputs)
    /\ \A i \in Inputs0 :
        /\ psbt0.inputs[i].witness_utxo # None
        /\ TagKind(psbt0.inputs[i]) # "corrupt"
        /\ \A e \in psbt0.inputs[i].tap_scripts : e.script[1] = "expiry"

C2_Offending(i) ==
    TagKind(psbt0.inputs[i]) = "Vtxo" /\ psbt0.inputs[i].tap_scripts = {}

\* C2: negative scenario.  When sign_round_utxo_inputs is called on a PSBT
\* with a Vtxo-tagged input that has no tap-script entry, the call fails with
\* a corruption error and the final witness of every other input, before or
\* after the offending one, is the same as before the call.
C2_NegativeScenario ==
    (Called /\ C2_WellFormedOtherwise /\ \E i \in Inputs0 : C2_Offending(i)) =>
        /\ sign_res.res = "Err"
        /\ sign_res.err = "corrupt psbt: missing tap_scripts"
        /\ \A j \in Inputs0 :
            psbt.inputs[j].final_script_witness = psbt0.inputs[j].final_script_witness

\* C3: enumerator shape and order.  When the database returns the expired
\* rounds R_1..R_n and finds each round's record, spendable_expired_vtxos
\* returns exactly 2n entries: entry 2i-1 has outpoint (R_i, 0), is tagged
\* RoundMeta::Vtxo for R_i and has exactly one tap-script entry; entry 2i has
\* outpoint (R_i, 1), is tagged RoundMeta::Connector for R_i and has no
\* tap-script entry.
C3_EnumeratorShape ==
    (/\ enum_call.expired.tag = "Ok"
     /\ \A r \in DOMAIN enum_call.get_round : enum_call.get_round[r] = "Some") =>
        LET R == enum_call.expired.val
            n == Len(R)
        IN  /\ enum_res.tag = "Ok"
            /\ Len(enum_res.val) = 2 * n
            /\ \A i \in 1..n :
                LET v == enum_res.val[2 * i - 1]
                    c == enum_res.val[2 * i]
                IN  /\ v.point = [txid |-> R[i], vout |-> 0]
                    /\ get_round_meta(v.psbt) = Ok(Some([round |-> R[i], meta |-> "Vtxo"]))
                    /\ Cardinality(v.psbt.tap_scripts) = 1
                    /\ c.point = [txid |-> R[i], vout |-> 1]
                    /\ get_round_meta(c.psbt) = Ok(Some([round |-> R[i], meta |-> "Connector"]))
                    /\ c.psbt.tap_scripts = {}

\* a call at which two rounds had expired, the later stored one first in the
\* index, and both records were found
C3_Witness ==
    /\ enum_call.expired.tag = "Ok"
    /\ Len(enum_call.expired.val) = 2
    /\ enum_call.expired.val[1] > enum_call.expired.val[2]
    /\ \A r \in DOMAIN enum_call.get_round : enum_call.get_round[r] = "Some"
    /\ enum_res.tag = "Ok"

\* what the ClaimInput key of the input held before the last call: "absent",
\* "malformed" (bytes that do not decode) or "claim"
ClaimTag0 ==
    IF PROP_KEY_CLAIM_INPUT \notin DOMAIN cin0.proprietary THEN "absent"
    ELSE IF ClaimDecode(cin0.proprietary[PROP_KEY_CLAIM_INPUT]).tag = "Err" THEN "malformed"
    ELSE "claim"
Claim0 == ClaimDecode(cin0.proprietary[PROP_KEY_CLAIM_INPUT]).val

\* C4: codec error path.  A lookup of a metadata tag whose key is absent
\* yields None, and one whose key is present with bytes that do not decode
\* yields an error result, never a panic: for get_claim_input and
\* try_sign_claim_input on the client and for the RoundMeta lookup of the
\* cosigner.
C4_CodecErrorPath ==
    /\ (client_call.op = "get" /\ ClaimTag0 = "absent") => client_res = None
    /\ (client_call.op \in {"get", "sign"} /\ ClaimTag0 = "malformed") =>
            client_res.tag = "Err"
    /\ (/\ Called
        /\ \A i \in Inputs0 : psbt0.inputs[i].witness_utxo # None
        /\ \E j \in Inputs0 : TagKind(psbt0.inputs[j]) = "corrupt") =>
            sign_res.res # "Panic"

\* C5: codec round trip.  get_claim_input right after set_claim_input(v)
\* returns Some(v), whatever the input held before; on a freshly constructed
\* input it returns None; and set_claim_input changes nothing but the one
\* proprietary entry keyed (prefix "bark", subtype 1, empty key).
C5_CodecRoundTrip ==
    /\ client_call.op = "set" =>
        /\ get_claim_input(cin) = client_call.v
        /\ DOMAIN cin.proprietary =
              DOMAIN cin0.proprietary \cup {[prefix |-> "bark", subtype |-> 1, key |-> <<>>]}
        /\ \A k \in DOMAIN cin0.proprietary :
              k # [prefix |-> "bark", subtype |-> 1, key |-> <<>>] =>
                  cin.proprietary[k] = cin0.proprietary[k]
        /\ cin = [cin0 EXCEPT !.proprietary = cin.proprietary]
    /\ (client_call.op = "get" /\ client_call.v # None) => client_res = client_call.v
    /\ (client_call.op = "get" /\ cin0 = DefaultInput) => client_res = None

\* set_claim_input replaced another claim on an input that also carries
\* another producer's entry
C5_Witness ==
    /\ client_call.op = "set"
    /\ ClaimTag0 = "claim"
    /\ Some(Claim0) # client_call.v
    /\ OtherKey \in DOMAIN cin0.proprietary
    /\ cin0.final_script_witness # None

SignKeyMatches == ClaimTag0 = "claim" /\ public_key(client_call.key) = Claim0.spec.user_pubkey

IsExitWitness(w) ==
    /\ w # None
    /\ Len(w.val) = 3
    /\ w.val[1].by = client_call.key
    /\ w.val[1].sig.path = "script" /\ w.val[1].sig.index = client_call.idx - 1
    /\ w.val[2] = exit_clause(Claim0.spec)
    /\ w.val[3] = ControlSerialize(exit_control_block(Claim0.spec, exit_clause(Claim0.spec)))

C6_NoOpOnUntagged ==
    (client_call.op = "sign" /\ ClaimTag0 = "absent") =>
        client_res = Ok("()") /\ cin = cin0

C7_KeyMismatchWritesNothing ==
    (/\ client_call.op = "sign"
     /\ ClaimTag0 = "claim"
     /\ public_key(client_call.key) # Claim0.spec.user_pubkey) =>
        /\ client_res.tag = "Panic"
        /\ cin.final_script_witness = cin0.final_script_witness

\* the assertion on the key fired, the sighash having been computed
C7_Witness ==
    /\ client_call.op = "sign"
    /\ ClaimTag0 = "claim"
    /\ public_key(client_call.key) # Claim0.spec.user_pubkey
    /\ ClientSighashArgsOk(ClientTx, client_call.prevouts, client_call.idx)
    /\ client_res = Panic("assert_eq")

BranchName(branch) ==
    IF branch = "rpc" THEN "error from gRPC server" ELSE "error from round scheduler"

\* what holds once the future this finished with output this.out
C8_FinishedWith(this, other, name) ==
    this.state = "finished" =>
        /\ jh # None
        /\ this.out.val.tag = "Ok" => jh.val = this.out.val
        /\ this.out.val.tag = "Err" => jh.val = Err(<<name, this.out.val.err>>)
        /\ other.state = "dropped"

\* a future that is finished or dropped stays as it is, work included
C8_NoRestart ==
    /\ rpc.state # "running" => rpc' = rpc
    /\ sched.state # "running" => sched' = sched
    /\ jh # None => jh' = jh

\* C8: fail-fast supervision.  As soon as the RPC server or the round
\* scheduler finishes, with Ok or with an error, the task spawned by
\* App::start finishes with that outcome, an error wrapped with the name of
\* the branch it came from; the other future is dropped and does not run on,
\* and neither is ever started again.
C8_FailFastSupervision ==
    /\ [](C8_FinishedWith(rpc, sched, BranchName("rpc")))
    /\ [](C8_FinishedWith(sched, rpc, BranchName("sched")))
    /\ [](jh = None <=> (rpc.state = "running" /\ sched.state = "running"))
    /\ [][C8_NoRestart]_vars

\* the round scheduler failed after both had worked, inputs still queued
C8_Witness ==
    /\ sched.state = "finished" /\ sched.out = Some(Err("failed"))
    /\ jh = Some(Err(<<"error from round scheduler", "failed">>))
    /\ rpc.state = "dropped" /\ rpc.work > 0 /\ sched.work > 0
    /\ round_inputs > 0

InCriticalSection(p) == pc[p] \in InWallet

\* C9: wallet mutual exclusion.  Under any interleaving of onchain_address
\* and sync_onchain_wallet calls at most one caller is inside its wallet
\* critical section; the lock is held by exactly the caller inside, hence
\* free again after every return, also one with an error or a panic;
\* callers inside the signing methods hold no lock and wait for none; and a
\* caller waiting for the lock eventually gets it.
C9_MutualExclusion ==
    /\ \A p, q \in Callers : (InCriticalSection(p) /\ InCriticalSection(q)) => p = q
    /\ \A p \in Callers : InCriticalSection(p) <=> wallet_lock = p
    /\ wallet_lock \in Callers \cup {0}
    /\ \A p \in Callers :
          pc[p] = "signing" => (wallet_lock # p /\ p \notin SeqRange(waiters))
    /\ \A p \in Callers : pc[p] = "lock" <=> p \in SeqRange(waiters)

C9_WalletLock ==
    /\ []C9_MutualExclusion
    /\ \A p \in Callers : (pc[p] = "lock") ~> (wallet_lock = p)

\* a sync pass that applied something failed and is about to return while
\* another caller waits for the lock
C9_Witness ==
    \E p, q \in Callers :
        /\ pc[p] = "return" /\ pass[p].op = "sync_onchain_wallet" /\ pass[p].res = "Err"
        /\ pass[p].log # <<>>
        /\ pc[q] = "lock"

InSyncPass(p) == pass[p].op = "sync_onchain_wallet" /\ InCriticalSection(p)

\* the heights of the blocks a pass applied, in the order it applied them
RECURSIVE AppliedHeights(_)
AppliedHeights(log) ==
    IF log = <<>> THEN <<>>
    ELSE (IF Head(log).ev = "apply" THEN <<Head(log).height>> ELSE <<>>)
         \o AppliedHeights(Tail(log))

\* what the store holds after the commits of a pass that started on store0
RECURSIVE LastCommitted(_, _)
LastCommitted(log, store0) ==
    IF log = <<>> THEN store0
    ELSE IF log[Len(log)].ev = "commit" THEN log[Len(log)].state.val
    ELSE LastCommitted(SubSeq(log, 1, Len(log) - 1), store0)

\* the order of a pass: blocks from the checkpoint on, one by one; a commit
\* right after a block whose height is a multiple of COMMIT_INTERVAL and
\* right after the mempool, unless that commit failed and ended the pass;
\* the mempool after the last block
C10_PassOrder(p) ==
    LET log == pass[p].log
        hs == AppliedHeights(log)
        Failed(i) == i = Len(log) /\ pc[p] = "return" /\ pass[p].res = "Err"
    IN  /\ \A k \in 1..Len(hs) : hs[k] = pass[p].prev_tip + k
        /\ \A i \in 1..Len(log) :
            /\ (log[i].ev = "apply" /\ log[i].height % 10000 = 0) =>
                  \/ Failed(i)
                  \/ /\ i < Len(log)
                     /\ log[i + 1].ev = "commit"
                     /\ log[i + 1].state.val.tip = log[i].height
            /\ log[i].ev = "mempool" =>
                  /\ \A j \in 1..Len(log) : log[j].ev = "apply" => j < i
                  /\ pc[p] = "return"
                  /\ Failed(i) \/ (i + 1 = Len(log) /\ log[i + 1].ev = "commit")

\* C10: sync pass ordering and durability.  In every sync_onchain_wallet
\* pass the blocks are applied one at a time in emission order from the
\* wallet's last checkpoint, a commit follows each block whose height is a
\* multiple of 10,000, the mempool is applied only after the last block and
\* a commit follows it.  When the call returns Ok nothing applied is left
\* uncommitted; when a step fails the call returns an error and the store
\* holds the state of the last commit that was performed.
C10_SyncPass ==
    \A p \in Callers : InSyncPass(p) =>
        /\ C10_PassOrder(p)
        /\ pc[p] = "return" =>
            /\ pass[p].res \in {"Ok", "Err"}
            /\ pass[p].res = "Ok" =>
                /\ store = wallet
                /\ wallet.unconfirmed /\ wallet.tip = pass[p].pos
                /\ Len(pass[p].log) >= 2
                /\ pass[p].log[Len(pass[p].log) - 1].ev = "mempool"
            /\ pass[p].res = "Err" =>
                store = LastCommitted(pass[p].log, pass[p].store0.val)

\* a pass returns Ok after a block with a commit due, a block without, the
\* mempool and the last commit
C10_Witness ==
    \E p \in Callers :
        /\ InSyncPass(p) /\ pc[p] = "return" /\ pass[p].res = "Ok"
        /\ Len(pass[p].log) = 5
        /\ pass[p].log[2].ev = "commit"
        /\ pass[p].log[3].ev = "apply"

\* a pass fails with a block applied after its last commit
C10_WitnessErr ==
    \E p \in Callers :
        /\ InSyncPass(p) /\ pc[p] = "return" /\ pass[p].res = "Err"
        /\ Len(pass[p].log) = 3
        /\ store # wallet

\* an input apart from its final witness
Frame(input) == [input EXCEPT !.final_script_witness = None]

\* C11: cosigner frame.  On any PSBT, whatever the outcome of
\* sign_round_utxo_inputs (Ok, an error, or a panic), the unsigned transaction
\* and the number and order of the inputs are as before the call; every
\* input's proprietary metadata, witness_utxo, non_witness_utxo, tap_scripts,
\* tap_internal_key and sighash_type are as before the call; and an input
\* whose final_script_witness differs from before the call carries a
\* RoundMeta tag.
C11_CosignerFrame ==
    Called =>
        /\ psbt.unsigned_tx = psbt0.unsigned_tx
        /\ Len(psbt.inputs) = Len(psbt0.inputs)
        /\ \A i \in Inputs0 :
            LET a == psbt.inputs[i]
                b == psbt0.inputs[i]
            IN  /\ a.proprietary = b.proprietary
                /\ a.witness_utxo = b.witness_utxo
                /\ a.non_witness_utxo = b.non_witness_utxo
                /\ a.tap_scripts = b.tap_scripts
                /\ a.tap_internal_key = b.tap_internal_key
                /\ a.sighash_type = b.sighash_type
                /\ Frame(a) = Frame(b)
                /\ a.final_script_witness # b.final_script_witness
                       => TagKind(b) \in RoundMetaKinds

\* a call that returned an error after it had signed a tagged input that
\* carries tap scripts, on a PSBT that also holds an untagged, already signed
\* input
C11_Witness ==
    /\ sign_res.res = "Err"
    /\ \E i, k \in Inputs0 :
        /\ TagKind(psbt0.inputs[i]) = "Vtxo"
        /\ psbt0.inputs[i].tap_scripts # {}
        /\ psbt.inputs[i].final_script_witness # psbt0.inputs[i].final_script_witness
        /\ TagKind(psbt0.inputs[k]) = "none"
        /\ psbt0.inputs[k].final_script_witness # None

====
